---- MODULE Spec2Model ----
(***************************************************************************)
(* Client-side authentication demo: the AuthProvider of src/App.tsx (the   *)
(* Session `user`, the Directory `users`, the `isLoading` flag, the two    *)
(* localStorage keys), the views AppContent mounts on top of it, and the   *)
(* generateBio service.                                                    *)
(*                                                                         *)
(* A nullable value (User | null, a missing localStorage key, an undefined *)
(* response text) is the empty sequence when absent and a one-element      *)
(* sequence when present.                                                  *)
(***************************************************************************)
EXTENDS Integers, Sequences, FiniteSets, TLC

VARIABLES
    user,        \* useState<User | null>          (App.tsx:20)
    users,       \* useState<User[]>               (App.tsx:21)
    isLoading,   \* useState<boolean>(true)        (App.tsx:22)
    hydrated,    \* the mount effect of App.tsx:25-38 has run
    storage,     \* localStorage: auth_db_users, auth_session
    syncPending, \* `users` changed and the effect of App.tsx:41-45 is due
    pending,     \* setTimeout callbacks of login/register not yet fired
    view,        \* AppContent's useState<'login' | 'register'> (App.tsx:411)
    error,       \* the mounted view's `error` state (App.tsx:108, 193)
    bio,         \* RegisterView's `bio` state     (App.tsx:188)
    form,        \* RegisterView's step, name, email, password (App.tsx:181-186)
    snap,        \* what the provider held when the page was last reloaded
    lastOp       \* the handler that ran last, with its call and its result

vars == <<user, users, isLoading, hydrated, storage, syncPending, pending,
          view, error, bio, form, snap, lastOp>>

----------------------------------------------------------------------------
(* Bounds of the model *)

MaxUsers == 2
MaxPending == 2

(* Program constants *)

LoginDelay == 800
RegisterDelay == 1000
MinPasswordLength == 6

InvalidCredentials == "Credenciais inválidas."
EmailTaken == "Este email já está cadastrado."
BioFallbackEmpty == "Apaixonado por tecnologia e inovação."
BioFallbackError == "Entusiasta de tecnologia explorando novas ideias."

(* Inputs.  No operation reads a record's id or createdAt (Math.random and *)
(* Date of App.tsx:76-77), so one value stands for each.                   *)

Emails == {"a@x.com", "b@x.com"}
Passwords == {"secret1", "wrong"}
RegPasswords == {"secret1"}
Names == {"Ana"}
Bios == {"Sou dev."}
Ids == {"id1"}
Stamps == {"t1"}
Sources == {"view", "api"}

None == <<>>
Some(x) == <<x>>

\* What the text-generation call can do: throw, or return a response whose
\* text is missing, empty, or some text.
BioTexts == {"", " ", "Sou dev.", "Amo cafe.", "Crio apps.", "Ensino React.", "Faco design."}

ApiOutcomes ==
    {[kind |-> "throw", text |-> None], [kind |-> "response", text |-> None]}
    \cup {[kind |-> "response", text |-> Some(t)] : t \in BioTexts}

BioNames == {"", "Ana", "Bia", "Caio"}
Interests == {"dev", "cafe", "React"}

----------------------------------------------------------------------------
(* JSON.stringify / JSON.parse of a User and of a User[]: the serialized   *)
(* form lists the values in the key order of the object literal.           *)

JSONstringify(u) ==
    <<u.id, u.createdAt, u.role, u.name, u.email, u.password, u.bio>>

JSONparse(s) ==
    [id |-> s[1], createdAt |-> s[2], role |-> s[3], name |-> s[4],
     email |-> s[5], password |-> s[6], bio |-> s[7]]

JSONstringifyList(us) == [i \in 1..Len(us) |-> JSONstringify(us[i])]

JSONparseList(ss) == [i \in 1..Len(ss) |-> JSONparse(ss[i])]

\* localStorage.setItem(key, value) and localStorage.removeItem(key)
setItem(st, key, value) == [st EXCEPT ![key] = Some(value)]

\* removeItem that leaves the key in place.
removeItemKeeps(st, key) == st

removeItem(st, key) == [st EXCEPT ![key] = None]

----------------------------------------------------------------------------
(* Pure helpers of the provider *)

\* find with || in place of &&.
findEither(us, email, pass) ==
    LET hits == {i \in 1..Len(us) : us[i].email = email \/ us[i].password = pass}
    IN  IF hits = {} THEN 0 ELSE CHOOSE i \in hits : \A j \in hits : i <= j

\* find that compares the email alone.
findByEmail(us, email, pass) ==
    LET hits == {i \in 1..Len(us) : us[i].email = email}
    IN  IF hits = {} THEN 0 ELSE CHOOSE i \in hits : \A j \in hits : i <= j

\* users.find(u => u.email === email && u.password === pass): the index of
\* the first match, 0 when there is none.
find(us, email, pass) ==
    LET hits == {i \in 1..Len(us) : us[i].email = email /\ us[i].password = pass}
    IN  IF hits = {} THEN 0 ELSE CHOOSE i \in hits : \A j \in hits : i <= j

\* some that compares the name with the email.
someByName(us, email) == \E i \in 1..Len(us) : us[i].name = email

\* users.some(u => u.email === data.email)
some(us, email) == \E i \in 1..Len(us) : us[i].email = email

\* { id, createdAt, role: 'user', ...data }
newUser(data, id, createdAt) ==
    [id |-> id, createdAt |-> createdAt, role |-> "user", name |-> data.name,
     email |-> data.email, password |-> data.password, bio |-> data.bio]

\* setUsers([...users, newUser]): the update built from the closed-over list.
appendUserClosed(prev, closed, u) == Append(closed, u)

\* setUsers(prev => [...prev, newUser]): the update reads the state at the
\* time it is applied, not the `users` the callback closed over.
appendUser(prev, closed, u) == Append(prev, u)

\* generateBio with ?? in place of ||: an empty text is returned as it is.
generateBioNullish(o) ==
    IF o.kind = "throw"
    THEN [kind |-> "resolve", value |-> BioFallbackError]
    ELSE IF o.text = None
         THEN [kind |-> "resolve", value |-> BioFallbackEmpty]
         ELSE [kind |-> "resolve", value |-> o.text[1]]

\* generateBio: the value the returned promise settles with.
generateBio(o) ==
    IF o.kind = "throw"
    THEN [kind |-> "resolve", value |-> BioFallbackError]
    ELSE IF o.text = None \/ o.text = Some("")
         THEN [kind |-> "resolve", value |-> BioFallbackEmpty]
         ELSE [kind |-> "resolve", value |-> o.text[1]]

----------------------------------------------------------------------------
(* Rendering: AppContent shows the spinner while isLoading, the Dashboard  *)
(* when authenticated, and otherwise the LoginView or the RegisterView.    *)

ViewShown(l, u) == ~l /\ u = None

\* A view instance keeps its local state only while it stays mounted.
KeepsView(l, u, v) == ViewShown(isLoading, user) /\ ViewShown(l, u) /\ v = view

\* The local state x of the mounted view after a render: a fresh instance
\* starts from useState('').
Local(x, l, u, v) == IF KeepsView(l, u, v) THEN x ELSE ""

\* RegisterView as it mounts: step 1, every field empty.
NoForm == [step |-> 1, name |-> "", email |-> "", password |-> ""]

\* The form after a render: a fresh RegisterView starts over.
LocalForm(f, l, u, v) == IF KeepsView(l, u, v) THEN f ELSE NoForm

\* Calls whose submitting view instance has been unmounted can no longer
\* write that view's state.
Detach(p, l, u, v) ==
    IF KeepsView(l, u, v) THEN p
    ELSE [i \in 1..Len(p) |-> [p[i] EXCEPT !.alive = FALSE]]

NoCall ==
    [kind |-> "none", src |-> "api", alive |-> FALSE, users |-> <<>>,
     data |-> [name |-> "", email |-> "", password |-> "", bio |-> ""]]

NoApi == [kind |-> "none", text |-> None]

\* How a promise settled (or that no promise is involved).
NoResult == [kind |-> "none", value |-> ""]
Resolved(v) == [kind |-> "resolve", value |-> v]
Rejected(m) == [kind |-> "reject", value |-> m]

\* Nothing to compare a rehydration with.
NoSnap == [idle |-> FALSE, users |-> <<>>, user |-> None]

Op(op, call, result, api) ==
    [op |-> op, call |-> call, result |-> result, api |-> api, args |-> <<>>]

\* Timers fire in the order of their due times: a callback is due once no
\* earlier call with a delay at most its own is still waiting.
Delay(c) == IF c.kind = "login" THEN LoginDelay ELSE RegisterDelay

CanFire(i) == \A j \in 1..(i - 1) : Delay(pending[j]) > Delay(pending[i])

Remove(p, i) == [j \in 1..(Len(p) - 1) |-> IF j < i THEN p[j] ELSE p[j + 1]]

PendingRegisters == Cardinality({i \in 1..Len(pending) : pending[i].kind = "register"})

----------------------------------------------------------------------------
Init ==
    /\ user = None
    /\ users = <<>>
    /\ isLoading = TRUE
    /\ hydrated = FALSE
    /\ storage = [auth_db_users |-> None, auth_session |-> None]
    /\ syncPending = FALSE
    /\ pending = <<>>
    /\ view = "login"
    /\ error = ""
    /\ bio = ""
    /\ form = NoForm
    /\ snap = NoSnap
    /\ lastOp = Op("init", NoCall, NoResult, NoApi)

\* The mount effect: load the Directory and the Session from localStorage.
Rehydrate ==
    /\ ~hydrated
    /\ users' = IF storage.auth_db_users # None
                THEN JSONparseList(storage.auth_db_users[1]) ELSE users
    /\ user' = IF storage.auth_session # None
               THEN Some(JSONparse(storage.auth_session[1])) ELSE user
    /\ isLoading' = FALSE
    /\ hydrated' = TRUE
    /\ syncPending' = (storage.auth_db_users # None)
    /\ lastOp' = Op("rehydrate", NoCall, NoResult, NoApi)
    /\ UNCHANGED <<storage, pending, view, error, bio, form, snap>>

\* The effect with users.length > 1 for its condition.
SyncEffectSkipsOne ==
    /\ syncPending
    /\ storage' = IF Len(users) > 1
                  THEN setItem(storage, "auth_db_users", JSONstringifyList(users))
                  ELSE storage
    /\ syncPending' = FALSE
    /\ snap' = NoSnap
    /\ lastOp' = Op("sync", NoCall, NoResult, NoApi)
    /\ UNCHANGED <<user, users, isLoading, hydrated, pending, view, error, bio, form>>

\* The effect on [users]: mirror a non-empty Directory to localStorage.
SyncEffect ==
    /\ syncPending
    /\ storage' = IF Len(users) > 0
                  THEN setItem(storage, "auth_db_users", JSONstringifyList(users))
                  ELSE storage
    /\ syncPending' = FALSE
    /\ snap' = NoSnap
    /\ lastOp' = Op("sync", NoCall, NoResult, NoApi)
    /\ UNCHANGED <<user, users, isLoading, hydrated, pending, view, error, bio, form>>

Ready == hydrated /\ ~syncPending

\* login(email, pass) up to the setTimeout; from LoginView.handleSubmit
\* (src = "view") or from any other consumer of the context (src = "api").
login(email, pass, src) ==
    /\ Ready
    /\ Len(pending) < MaxPending
    /\ src = "view" => ViewShown(isLoading, user) /\ view = "login"
    /\ isLoading' = TRUE
    /\ LET c == [kind |-> "login", src |-> src,
                 alive |-> (src = "view" /\ KeepsView(isLoading', user, view)),
                 users |-> users,
                 data |-> [name |-> "", email |-> email, password |-> pass, bio |-> ""]]
       IN  /\ pending' = Append(Detach(pending, isLoading', user, view), c)
           /\ snap' = NoSnap
           /\ lastOp' = Op("login", c, NoResult, NoApi)
    /\ error' = Local(IF src = "view" THEN "" ELSE error, isLoading', user, view)
    /\ form' = LocalForm(form, isLoading', user, view)
    /\ UNCHANGED <<user, users, hydrated, storage, syncPending, view, bio>>

\* The setTimeout callback of login, then the catch of the submitting view.
loginSettle(i) ==
    /\ Ready
    /\ i \in 1..Len(pending)
    /\ pending[i].kind = "login"
    /\ CanFire(i)
    /\ LET c == pending[i]
           k == find(c.users, c.data.email, c.data.password)
           result == IF k # 0 THEN Resolved("") ELSE Rejected(InvalidCredentials)
       IN  /\ user' = IF k # 0 THEN Some(c.users[k]) ELSE user
           /\ storage' = IF k # 0
                         THEN setItem(storage, "auth_session", JSONstringify(c.users[k]))
                         ELSE storage
           /\ isLoading' = FALSE
           /\ pending' = Detach(Remove(pending, i), isLoading', user', view)
           /\ error' = Local(IF c.alive /\ k = 0 THEN result.value ELSE error,
                             isLoading', user', view)
           /\ form' = LocalForm(form, isLoading', user', view)
           /\ snap' = NoSnap
           /\ lastOp' = Op("loginSettle", c, result, NoApi)
    /\ UNCHANGED <<users, hydrated, syncPending, view, bio>>

\* register(data) up to the setTimeout; from RegisterView.handleRegister
\* (src = "view", data being what the form holds) or from any other consumer.
register(data, src) ==
    /\ Ready
    /\ Len(pending) < MaxPending
    /\ Len(users) + PendingRegisters < MaxUsers
    /\ src = "view" => ViewShown(isLoading, user) /\ view = "register"
    /\ isLoading' = TRUE
    /\ LET c == [kind |-> "register", src |-> src,
                 alive |-> (src = "view" /\ KeepsView(isLoading', user, view)),
                 users |-> users,
                 data |-> data]
       IN  /\ pending' = Append(Detach(pending, isLoading', user, view), c)
           /\ snap' = NoSnap
           /\ lastOp' = Op("register", c, NoResult, NoApi)
    /\ error' = Local(IF src = "view" THEN "" ELSE error, isLoading', user, view)
    /\ form' = LocalForm(form, isLoading', user, view)
    /\ UNCHANGED <<user, users, hydrated, storage, syncPending, view, bio>>

\* The setTimeout callback of register, then the catch of the submitting view.
registerSettle(i, id, createdAt) ==
    /\ Ready
    /\ i \in 1..Len(pending)
    /\ pending[i].kind = "register"
    /\ CanFire(i)
    /\ LET c == pending[i]
           taken == some(c.users, c.data.email)
           u == newUser(c.data, id, createdAt)
           result == IF taken THEN Rejected(EmailTaken) ELSE Resolved("")
       IN  /\ users' = IF taken THEN users ELSE appendUser(users, c.users, u)
           /\ user' = IF taken THEN user ELSE Some(u)
           /\ storage' = IF taken THEN storage
                         ELSE setItem(storage, "auth_session", JSONstringify(u))
           /\ syncPending' = ~taken
           /\ isLoading' = FALSE
           /\ pending' = Detach(Remove(pending, i), isLoading', user', view)
           /\ error' = Local(IF c.alive /\ taken THEN result.value ELSE error,
                             isLoading', user', view)
           /\ form' = LocalForm(form, isLoading', user', view)
           /\ snap' = NoSnap
           /\ lastOp' = Op("registerSettle", c, result, NoApi)
    /\ UNCHANGED <<hydrated, view, bio>>

\* logout(): the Dashboard's button, or any other consumer of the context.
logout ==
    /\ Ready
    /\ user' = None
    /\ storage' = removeItem(storage, "auth_session")
    /\ pending' = Detach(pending, isLoading, user', view)
    /\ error' = Local(error, isLoading, user', view)
    /\ form' = LocalForm(form, isLoading, user', view)
    /\ snap' = NoSnap
    /\ lastOp' = [Op("logout", NoCall, NoResult, NoApi) EXCEPT
                     !.args = IF user = None THEN <<"loggedOut">> ELSE <<"loggedIn">>]
    /\ UNCHANGED <<users, isLoading, hydrated, syncPending, view, bio>>

\* onNavigate(v): the links that swap LoginView and RegisterView.
onNavigate(v) ==
    /\ Ready
    /\ ViewShown(isLoading, user)
    /\ v # view
    /\ view' = v
    /\ pending' = Detach(pending, isLoading, user, v)
    /\ error' = Local(error, isLoading, user, v)
    /\ form' = LocalForm(form, isLoading, user, v)
    /\ snap' = NoSnap
    /\ lastOp' = Op("navigate", NoCall, NoResult, NoApi)
    /\ UNCHANGED <<user, users, isLoading, hydrated, storage, syncPending, bio>>

\* The page is reloaded (or closed and opened again): localStorage stays,
\* the provider and the views start over, pending timers are gone.
Reload ==
    /\ snap' = IF Ready /\ pending = <<>>
               THEN [idle |-> TRUE, users |-> users, user |-> user]
               ELSE NoSnap
    /\ user' = None
    /\ users' = <<>>
    /\ isLoading' = TRUE
    /\ hydrated' = FALSE
    /\ syncPending' = FALSE
    /\ pending' = <<>>
    /\ view' = "login"
    /\ error' = ""
    /\ form' = NoForm
    /\ lastOp' = Op("reload", NoCall, NoResult, NoApi)
    /\ UNCHANGED <<storage, bio>>

RegisterData == [name : Names, email : Emails, password : RegPasswords, bio : Bios]

Next ==
    \/ Rehydrate
    \/ SyncEffect
    \/ \E e \in Emails, p \in Passwords, s \in Sources : login(e, p, s)
    \/ \E i \in 1..MaxPending : loginSettle(i)
    \/ \E d \in RegisterData, s \in Sources : register(d, s)
    \/ \E i \in 1..MaxPending, id \in Ids, t \in Stamps : registerSettle(i, id, t)
    \/ logout
    \/ \E v \in {"login", "register"} : onNavigate(v)
    \/ Reload

Spec == Init /\ [][Next]_vars

----------------------------------------------------------------------------
(* The claims.  A settle step is told by lastOp': the call it settles,     *)
(* with the Directory the call was made on (call.users), and the way the   *)
(* promise settled.                                                        *)

HasEmail(us, e) == \E i \in DOMAIN us : us[i].email = e

HasCredentials(us, e, p) == \E i \in DOMAIN us : us[i].email = e /\ us[i].password = p

InDirectory(u, us) == \E i \in DOMAIN us : us[i] = u

Settles(op, kind) == op.op = kind

\* C1: a register call whose email is the email of a record already in the
\* Directory rejects with EmailTaken, and leaves the in-memory Directory and
\* the persisted auth_db_users as they were.
C1_DuplicateEmailRejected ==
    [][ (/\ Settles(lastOp', "registerSettle")
         /\ HasEmail(lastOp'.call.users, lastOp'.call.data.email))
        => (/\ lastOp'.result = Rejected(EmailTaken)
            /\ users' = users
            /\ storage'.auth_db_users = storage.auth_db_users) ]_vars

C1_Witness ==
    /\ Settles(lastOp, "registerSettle")
    /\ HasEmail(lastOp.call.users, lastOp.call.data.email)
    /\ lastOp.result = Rejected(EmailTaken)
    /\ users # <<>>
    /\ storage.auth_db_users # None

C3_LoginSucceeds ==
    [][ (/\ Settles(lastOp', "loginSettle")
         /\ HasCredentials(lastOp'.call.users, lastOp'.call.data.email,
                           lastOp'.call.data.password))
        => (/\ lastOp'.result.kind = "resolve"
            /\ user' # None
            /\ InDirectory(user'[1], users')
            /\ user'[1].email = lastOp'.call.data.email
            /\ user'[1].password = lastOp'.call.data.password
            /\ storage'.auth_session # None
            /\ JSONparse(storage'.auth_session[1]) = user'[1]) ]_vars

\* A login as the second record of the Directory has resolved.
C3_Witness ==
    /\ Settles(lastOp, "loginSettle")
    /\ lastOp.result.kind = "resolve"
    /\ Len(users) = 2
    /\ users[1].email # users[2].email
    /\ user = Some(users[2])

\* C4: a login call for which no Directory record has both the email and the
\* password rejects with InvalidCredentials, and leaves the Session, the
\* persisted auth_session and the Directory as they were.
C4_LoginFails ==
    [][ (/\ Settles(lastOp', "loginSettle")
         /\ ~HasCredentials(lastOp'.call.users, lastOp'.call.data.email,
                            lastOp'.call.data.password))
        => (/\ lastOp'.result = Rejected(InvalidCredentials)
            /\ user' = user
            /\ storage' = storage
            /\ users' = users) ]_vars

\* A login with a registered email and a wrong password has failed while
\* somebody else was logged in.
C4_Witness ==
    /\ Settles(lastOp, "loginSettle")
    /\ lastOp.result = Rejected(InvalidCredentials)
    /\ HasEmail(users, lastOp.call.data.email)
    /\ user # None
    /\ user[1].email # lastOp.call.data.email
    /\ storage.auth_session = Some(JSONstringify(user[1]))

\* C5: logout, logged in or not, leaves the Session absent and the
\* auth_session key removed, and the Directory and auth_db_users unchanged.
C5_LogoutClearsSession ==
    [][ Settles(lastOp', "logout")
        => (/\ user' = None
            /\ storage'.auth_session = None
            /\ users' = users
            /\ storage'.auth_db_users = storage.auth_db_users) ]_vars

C5_Witness ==
    /\ Settles(lastOp, "logout")
    /\ lastOp.args = <<"loggedIn">>
    /\ users # <<>>
    /\ storage.auth_db_users # None

\* C6: no two Directory records have the same email, whatever the sequence
\* of register calls, two calls pending at once included.
C6_UniqueEmails ==
    \A i, j \in DOMAIN users : i # j => users[i].email # users[j].email

\* C7: once the rehydration effect has run, isLoading is false, also while
\* a login or register call is pending.
C7_LoadingOnlyAtStartup == hydrated => ~isLoading

\* C8: when a login or register submitted from a view has failed, the view
\* on screen after the call settled displays the error's message.
C8_ErrorDisplayed ==
    (/\ lastOp.op \in {"loginSettle", "registerSettle"}
     /\ lastOp.call.src = "view"
     /\ lastOp.result.kind = "reject")
    => (ViewShown(isLoading, user) /\ error = lastOp.result.value)

IsPrefix(a, b) == Len(a) <= Len(b) /\ SubSeq(b, 1, Len(a)) = a

\* C11: within one provider instance, in every step after the rehydration
\* the old Directory is a prefix of the new one, and only a register that
\* resolves changes it: login, a rejected register and logout leave it.
C11_AppendOnly ==
    [][ (hydrated /\ hydrated')
        => (/\ IsPrefix(users, users')
            /\ (users' # users
                  => (/\ Settles(lastOp', "registerSettle")
                      /\ lastOp'.result.kind = "resolve"
                      /\ Len(users') = Len(users) + 1))) ]_vars

\* A registration made on a Directory of one record has resolved, and that
\* record is still the first.
C11_Witness ==
    /\ Settles(lastOp, "registerSettle")
    /\ lastOp.result.kind = "resolve"
    /\ Len(users) = 2
    /\ lastOp.call.users = <<users[1]>>

\* C13: a present Session is a record of the in-memory Directory, and a
\* persisted auth_session is a record of the persisted auth_db_users, in
\* every reachable state, so that no reload rehydrates a Session whose user
\* the Directory lacks.
C13_SessionInDirectory ==
    /\ user # None => InDirectory(user[1], users)
    /\ storage.auth_session # None
         => (/\ storage.auth_db_users # None
             /\ InDirectory(JSONparse(storage.auth_session[1]),
                            JSONparseList(storage.auth_db_users[1])))

----------------------------------------------------------------------------
(* The bio assistant of RegisterView, on its own: what the textarea holds  *)
(* when the form is submitted is the data.bio input of register above.     *)

BioOp(name, interests, result, api) ==
    [op |-> "generateBio", call |-> NoCall, result |-> result, api |-> api,
     args |-> <<name, interests>>]

\* RegisterView.handleGenerateBio; its button is disabled without interests.
handleGenerateBio(name, interests, o) ==
    /\ Ready
    /\ ViewShown(isLoading, user)
    /\ view = "register"
    /\ interests # ""
    /\ IF name = "" \/ interests = ""
       THEN /\ error' = "Preencha nome e interesses para gerar a bio."
            /\ bio' = bio
            /\ lastOp' = BioOp(name, interests, NoResult, NoApi)
       ELSE LET r == generateBio(o)
            IN  /\ error' = IF r.kind = "resolve" THEN ""
                            ELSE "Falha ao gerar bio. Tente escrever manualmente."
                /\ bio' = IF r.kind = "resolve" THEN r.value ELSE bio
                /\ lastOp' = BioOp(name, interests, r, o)
    /\ UNCHANGED <<user, users, isLoading, hydrated, storage, syncPending,
                   pending, view, form, snap>>

\* The RegisterView is on screen, nobody logged in, nothing stored.
BioInit ==
    /\ user = None
    /\ users = <<>>
    /\ isLoading = FALSE
    /\ hydrated = TRUE
    /\ storage = [auth_db_users |-> None, auth_session |-> None]
    /\ syncPending = FALSE
    /\ pending = <<>>
    /\ view = "register"
    /\ error = ""
    /\ bio = ""
    /\ form = NoForm
    /\ snap = NoSnap
    /\ lastOp = Op("navigate", NoCall, NoResult, NoApi)

BioNext ==
    \E n \in BioNames, x \in Interests, o \in ApiOutcomes : handleGenerateBio(n, x, o)

BioSpec == BioInit /\ [][BioNext]_vars

\* C9: generateBio never rejects and never returns the empty string: the
\* error fallback when the call throws, the (different) empty fallback when
\* the text is empty or missing, the returned text otherwise.
C9_BioNeverEmpty ==
    (lastOp.op = "generateBio" /\ lastOp.api # NoApi)
    => (/\ lastOp.result.kind = "resolve"
        /\ lastOp.result.value # ""
        /\ bio = lastOp.result.value
        /\ BioFallbackError # BioFallbackEmpty
        /\ lastOp.result.value =
             IF lastOp.api.kind = "throw" THEN BioFallbackError
             ELSE IF lastOp.api.text \in {None, Some("")} THEN BioFallbackEmpty
             ELSE lastOp.api.text[1])

\* The call returned an empty text and the form holds the fallback.
C9_Witness ==
    /\ lastOp.op = "generateBio"
    /\ lastOp.api = [kind |-> "response", text |-> Some("")]
    /\ bio = BioFallbackEmpty

----------------------------------------------------------------------------
(* The two-step form of RegisterView: the fields are rendered, and so can  *)
(* be typed into, in step 1 only (App.tsx:237-250); step 2 holds the bio   *)
(* and the only submit button (App.tsx:252-295).  Step 1 has three text    *)
(* inputs and no submit button, so Enter does not submit the form there.   *)

FormNames == {"", "Ana"}
FormEmails == {"", "a@x.com", "b@x.com"}
FormPasswords == {"", "wrong", "secret", "secret1"}

\* password.length, on the passwords that can be typed.
length(s) ==
    CASE s = "" -> 0
      [] s = "wrong" -> 5
      [] s = "secret" -> 6
      [] s = "secret1" -> 7

\* The check of Continuar with a password that is only non-empty.
canContinueAnyPassword(name, email, password) ==
    name # "" /\ email # "" /\ password # ""

\* name && email && password.length >= 6
canContinue(name, email, password) ==
    name # "" /\ email # "" /\ length(password) >= MinPasswordLength

FormShown == Ready /\ ViewShown(isLoading, user) /\ view = "register"

\* A handler of the form that leaves the provider alone.
FormOp(op) ==
    /\ snap' = NoSnap
    /\ lastOp' = Op(op, NoCall, NoResult, NoApi)
    /\ UNCHANGED <<user, users, isLoading, hydrated, storage, syncPending,
                   pending, view, bio>>

\* onChange of the three inputs of step 1.
setName(v) ==
    /\ FormShown
    /\ form.step = 1
    /\ form' = [form EXCEPT !.name = v]
    /\ error' = error
    /\ FormOp("setName")

setEmail(v) ==
    /\ FormShown
    /\ form.step = 1
    /\ form' = [form EXCEPT !.email = v]
    /\ error' = error
    /\ FormOp("setEmail")

setPassword(v) ==
    /\ FormShown
    /\ form.step = 1
    /\ form' = [form EXCEPT !.password = v]
    /\ error' = error
    /\ FormOp("setPassword")

\* onClick of Continuar
Continuar ==
    /\ FormShown
    /\ form.step = 1
    /\ IF canContinue(form.name, form.email, form.password)
       THEN form' = [form EXCEPT !.step = 2] /\ error' = error
       ELSE form' = form /\ error' = "Preencha todos os campos corretamente."
    /\ FormOp("Continuar")

\* onClick of Voltar
Voltar ==
    /\ FormShown
    /\ form.step = 2
    /\ form' = [form EXCEPT !.step = 1]
    /\ error' = error
    /\ FormOp("Voltar")

\* RegisterView.handleRegister: the submit button of step 2.
handleRegister ==
    /\ FormShown
    /\ form.step = 2
    /\ register([name |-> form.name, email |-> form.email,
                 password |-> form.password, bio |-> bio], "view")

FormInit == BioInit

FormNext ==
    \/ \E v \in FormNames : setName(v)
    \/ \E v \in FormEmails : setEmail(v)
    \/ \E v \in FormPasswords : setPassword(v)
    \/ Continuar
    \/ Voltar
    \/ handleRegister
    \/ \E i \in 1..MaxPending, id \in Ids, t \in Stamps : registerSettle(i, id, t)
    \/ SyncEffect
    \/ logout
    \/ \E v \in {"login", "register"} : onNavigate(v)

FormSpec == FormInit /\ [][FormNext]_vars

\* C12: step 2 is shown only with a non-empty name, a non-empty email and a
\* password of at least 6 characters, and every register call the form makes
\* carries such values, whatever was typed and however often Continuar and
\* Voltar were pressed.
C12_StepTwoValidated ==
    /\ form.step = 2
         => (form.name # "" /\ form.email # "" /\ length(form.password) >= 6)
    /\ (lastOp.op = "register" /\ lastOp.call.src = "view")
         => (/\ lastOp.call.data.name # ""
             /\ lastOp.call.data.email # ""
             /\ length(lastOp.call.data.password) >= 6)

\* The form has submitted a second registration, with a password of exactly
\* six characters.
C12_Witness ==
    /\ lastOp.op = "register"
    /\ lastOp.call.src = "view"
    /\ lastOp.call.data.password = "secret"
    /\ users # <<>>
====
